---- MODULE Spec2Model ----
(***************************************************************************)
(* datalad-tabby: the serialize and deserialize commands                   *)
(* (commands/tabby-serialize.py, commands/tabby-deserialize.py, with the   *)
(* domain model of commands/model.py) and the tabby record loader          *)
(* (io/load.py).                                                           *)
(*                                                                         *)
(* Text is a sequence of tokens: TAB and NL are the separator characters,  *)
(* "/" the path separator, every other token a run of ordinary characters. *)
(* A Python dict is a sequence of <<key, value>> pairs in insertion order. *)
(* A filesystem is a function from absolute paths (sequences of            *)
(* components) to nodes (directory, file with its text, symbolic link with *)
(* its target).                                                            *)
(***************************************************************************)
EXTENDS Integers, Sequences, FiniteSets, TLC

VARIABLES
    folded,         \* the traversal records main() has handed to process() so far
    serialization,  \* the SerializationInfo of the serialize run
    pc,             \* serialize main(): "fold", "error", "outfail", "done"
    error,          \* the exception that ended the serialize run, or None
    stdout,         \* what the serialize run printed
    fs,             \* the filesystem
    out_arg,        \* serialize's --output_dir argument
    de,             \* the deserialize run: state, arguments, error, effects
    ld              \* the loader run (io/load.py)

vars == <<folded, serialization, pc, error, stdout, fs, out_arg, de, ld>>

\* ------------------------------------------------------------------ bounds

\* The number of records the traversal yields in one run is at most this.
MaxRecords == 3

\* ------------------------------------------------------------ Python values

None == "None"

\* An optional field (str | None, list | None): unset, or set to a value.
Unset == <<>>
Some(x) == <<x>>
IsSet(o) == o # <<>>
TAB == "\t"
NL == "\n"
SEP == "/"

SetMax(S) == CHOOSE x \in S : \A y \in S : x >= y

\* str(n) of a small non-negative integer, as one token.
DecStr(n) == <<"0", "1", "2", "3", "4", "5", "6", "7", "8", "9">>[n + 1]

\* dict: k in d, d[k], d[k] = v (a new key goes last, an old key keeps its place)
DictKeys(d) == {d[i][1] : i \in DOMAIN d}
DictHas(d, k) == k \in DictKeys(d)
DictIdx(d, k) == CHOOSE i \in DOMAIN d : d[i][1] = k
DictGet(d, k) == d[DictIdx(d, k)][2]
DictSet(d, k, v) ==
    IF DictHas(d, k) THEN [d EXCEPT ![DictIdx(d, k)] = <<k, v>>]
    ELSE Append(d, <<k, v>>)
DictValues(d) == [i \in DOMAIN d |-> d[i][2]]

\* ------------------------------------------------------------------- paths

\* pathlib.Path(s) of a string given as tokens: "." components and separators
\* vanish, a leading separator makes the path absolute.
RECURSIVE PathParts(_)
PathParts(s) ==
    IF s = <<>> THEN <<>>
    ELSE IF Head(s) \in {SEP, "."} THEN PathParts(Tail(s))
    ELSE <<Head(s)>> \o PathParts(Tail(s))

Path(s) == [abs |-> s # <<>> /\ Head(s) = SEP, parts |-> PathParts(s)]

\* p / q
Join(p, q) == IF q.abs THEN q ELSE [abs |-> p.abs, parts |-> p.parts \o q.parts]
Child(p, name) == [abs |-> p.abs, parts |-> Append(p.parts, name)]

\* The working directory of both commands.
Cwd == <<"w">>

\* The absolute place a path names.
Abs(p) == IF p.abs THEN p.parts ELSE Cwd \o p.parts

Parent(a) == SubSeq(a, 1, Len(a) - 1)

\* -------------------------------------------------------------- filesystem

NoPath == [abs |-> FALSE, parts |-> <<>>]
DirNode == [kind |-> "dir", data |-> <<>>, target |-> NoPath]
FileNode(text) == [kind |-> "file", data |-> text, target |-> NoPath]
LinkNode(target) == [kind |-> "link", data |-> <<>>, target |-> target]

FsPut(f, a, node) == [q \in DOMAIN f \cup {a} |-> IF q = a THEN node ELSE f[q]]

IsDir(f, a) == a \in DOMAIN f /\ f[a].kind = "dir"
IsFile(f, a) == a \in DOMAIN f /\ f[a].kind = "file"
IsLink(f, a) == a \in DOMAIN f /\ f[a].kind = "link"

\* Where the symbolic link at a leads: a relative target is relative to the
\* directory that holds the link.
LinkDest(f, a) ==
    IF f[a].target.abs THEN f[a].target.parts ELSE Parent(a) \o f[a].target.parts

\* Path.mkdir(parents=True, exist_ok=...): every missing ancestor is created;
\* FileExistsError when the path exists and exist_ok is off or it is no directory.
RECURSIVE MkdirParents(_, _)
MkdirParents(f, a) ==
    IF a = <<>> \/ a \in DOMAIN f THEN f
    ELSE FsPut(MkdirParents(f, Parent(a)), a, DirNode)

Mkdir(f, a, exist_ok) ==
    IF a \in DOMAIN f /\ (~exist_ok \/ ~IsDir(f, a))
    THEN [fs |-> f, error |-> "FileExistsError"]
    ELSE [fs |-> MkdirParents(f, a), error |-> None]

\* The source dataset's working tree, an existing directory "old" with a file
\* in it, and the working directory.
InitFs ==
    (<<"w">> :> DirNode) @@ (<<"t">> :> DirNode) @@
    (<<"w", "old">> :> DirNode) @@
    (<<"w", "old", "keep">> :> FileNode(<<"kept">>)) @@
    (<<"src">> :> DirNode) @@
    (<<"src", "a">> :> FileNode(<<"content-a">>)) @@
    (<<"src", "b">> :> FileNode(<<"content-b">>)) @@
    (<<"src", "sub">> :> DirNode) @@
    (<<"src", "sub", "a">> :> FileNode(<<"content-sub-a">>))

\* -------------------------------------------------- the traversal's records

\* The dataset the serialize command is started on: require_dataset(...).id and
\* its repo's get_hexsha().
StartId == "d1"
StartVersion == "v1"

NoError == [kind |-> None, msg |-> <<>>]

\* What iter_dataset yields: the element's descriptor with the dataset identity
\* copied in and, inside a sub-dataset, the root dataset's identity and the
\* sub-dataset's mount path.
DatasetElement(type, id, ver) ==
    [type |-> type, dataset_id |-> id, dataset_version |-> ver, status |-> "ok"]

FileElement(id, ver, ipath, src, size, annexed) ==
    DatasetElement("file", id, ver) @@
    [intra_dataset_path |-> ipath, path |-> src, bytesize |-> size,
     executable |-> FALSE, annexed |-> annexed]

Annex(elem, key, locations) == elem @@ [key |-> key, locations |-> locations]

InSub(elem, mount) ==
    elem @@ [root_dataset_id |-> StartId, root_dataset_version |-> StartVersion,
             dataset_path |-> mount]

SrcA == <<SEP, "src", SEP, "a">>
SrcB == <<SEP, "src", SEP, "b">>
SrcSubA == <<SEP, "src", SEP, "sub", SEP, "a">>

Elements ==
    { DatasetElement("dataset", "d1", "v1"),
      InSub(DatasetElement("dataset", "d2", "v1"), "sub"),
      InSub(DatasetElement("dataset", "d2", "v2"), "sub"),
      DatasetElement("symlink", "d1", "v1"),
      FileElement("d1", "v1", <<"a">>, SrcA, 0, FALSE),
      Annex(FileElement("d1", "v1", <<"a">>, SrcA, 9, TRUE), "k1", <<"l1", "l2">>),
      Annex(FileElement("d1", "v1", <<"x", SEP, "b">>, SrcB, 7, TRUE), "k2", <<>>),
      InSub(FileElement("d2", "v1", <<"a">>, SrcSubA, 3, FALSE), "sub") }

\* ------------------------------------------------------------- serialize

add_dataset_info(uuid_str, status) ==
    IF ~DictHas(status, uuid_str)
    THEN DictSet(status, uuid_str,
                 [dataset_id |-> uuid_str, dataset_versions |-> <<>>])
    ELSE status

add_dataset_version(id_str, version_str, status) ==
    LET s1 == add_dataset_info(id_str, status)
        dataset_info == DictGet(s1, id_str)
    IN  IF ~DictHas(dataset_info.dataset_versions, version_str)
        THEN DictSet(s1, id_str,
                 [dataset_info EXCEPT !.dataset_versions =
                     DictSet(@, version_str,
                             [dataset_version |-> version_str,
                              files |-> <<>>, sub_datasets |-> <<>>])])
        ELSE s1

\* status[id].dataset_versions[version], and status with that entry replaced
VersionInfo(status, id, version) ==
    DictGet(DictGet(status, id).dataset_versions, version)

HasVersion(status, id, version) ==
    DictHas(status, id) /\ DictHas(DictGet(status, id).dataset_versions, version)

SetVersionInfo(status, id, version, dvi) ==
    DictSet(status, id,
            [DictGet(status, id) EXCEPT !.dataset_versions = DictSet(@, version, dvi)])

\* A faulty variant: the link carries the sub-dataset's own id.
add_dataset_version_info_own_id(dataset_element, status) ==
    LET s1 == add_dataset_version(dataset_element.dataset_id,
                                  dataset_element.dataset_version, status)
    IN  IF "root_dataset_id" \in DOMAIN dataset_element
        THEN LET rid == dataset_element.root_dataset_id
                 rver == dataset_element.root_dataset_version
                 s2 == add_dataset_version(rid, rver, s1)
             IN  SetVersionInfo(s2, rid, rver,
                     [VersionInfo(s2, rid, rver) EXCEPT !.sub_datasets =
                         DictSet(@, dataset_element.dataset_path,
                                 [dataset_id |-> dataset_element.dataset_id,
                                  dataset_version |-> dataset_element.dataset_version])])
        ELSE s1

add_dataset_version_info(dataset_element, status) ==
    LET s1 == add_dataset_version(dataset_element.dataset_id,
                                  dataset_element.dataset_version, status)
        dataset_version_info ==
            VersionInfo(s1, dataset_element.dataset_id, dataset_element.dataset_version)
    IN  IF "root_dataset_id" \in DOMAIN dataset_element
        THEN LET rid == dataset_element.root_dataset_id
                 rver == dataset_element.root_dataset_version
                 s2 == add_dataset_version(rid, rver, s1)
             IN  SetVersionInfo(s2, rid, rver,
                     [VersionInfo(s2, rid, rver) EXCEPT !.sub_datasets =
                         DictSet(@, dataset_element.dataset_path,
                                 [dataset_id |-> dataset_element.root_dataset_id,
                                  dataset_version |-> dataset_version_info.dataset_version])])
        ELSE s1

\* A faulty variant: the annex fields are left at their defaults.
NewFileInfo_no_annex(dataset_element) ==
    [path |-> dataset_element.intra_dataset_path,
     byte_size |-> dataset_element.bytesize,
     executable |-> dataset_element.executable,
     url |-> <<"file://">> \o dataset_element.path,
     annexed |-> dataset_element.annexed,
     annex_key |-> Unset,
     annex_locations |-> Unset]

\* FileInfo(...) as add_file_info builds it
NewFileInfo(dataset_element) ==
    [path |-> dataset_element.intra_dataset_path,
     byte_size |-> dataset_element.bytesize,
     executable |-> dataset_element.executable,
     url |-> <<"file://">> \o dataset_element.path,
     annexed |-> dataset_element.annexed,
     annex_key |-> IF dataset_element.annexed
                   THEN Some(dataset_element.key) ELSE Unset,
     annex_locations |-> IF dataset_element.annexed
                         THEN Some(dataset_element.locations) ELSE Unset]

\* A faulty variant: a later record for the same path replaces the first.
add_file_info_overwrite(dataset_element, status) ==
    LET id == dataset_element.dataset_id
        version == dataset_element.dataset_version
        dataset_version == VersionInfo(status, id, version)
    IN  SetVersionInfo(status, id, version,
            [dataset_version EXCEPT !.files =
                DictSet(@, dataset_element.intra_dataset_path,
                        NewFileInfo(dataset_element))])

\* status is the dictionary that holds dataset_version, the DatasetVersionInfo
\* of the element's dataset_id and dataset_version.
add_file_info(dataset_element, status) ==
    LET id == dataset_element.dataset_id
        version == dataset_element.dataset_version
        dataset_version == VersionInfo(status, id, version)
        path == dataset_element.intra_dataset_path
    IN  IF ~DictHas(dataset_version.files, path)
        THEN SetVersionInfo(status, id, version,
                 [dataset_version EXCEPT !.files =
                     DictSet(@, path, NewFileInfo(dataset_element))])
        ELSE status

UnknownType(type) ==
    [kind |-> "ValueError", msg |-> <<"unknown element type: ", type>>]

\* A faulty variant: an unknown type is passed over like a dataset.
process_no_raise(dataset_element, ser) ==
    LET infos == add_dataset_version_info(dataset_element, ser.dataset_infos)
    IN  IF dataset_element.type = "file"
        THEN [ser |-> [ser EXCEPT !.dataset_infos = add_file_info(dataset_element, infos)],
              error |-> NoError]
        ELSE [ser |-> [ser EXCEPT !.dataset_infos = infos], error |-> NoError]

\* The serialization after process(), and the exception it raised, if any.
process(dataset_element, ser) ==
    LET infos == add_dataset_version_info(dataset_element, ser.dataset_infos)
    IN  IF dataset_element.type = "file"
        THEN [ser |-> [ser EXCEPT !.dataset_infos = add_file_info(dataset_element, infos)],
              error |-> NoError]
        ELSE IF dataset_element.type = "dataset"
        THEN [ser |-> [ser EXCEPT !.dataset_infos = infos], error |-> NoError]
        ELSE [ser |-> [ser EXCEPT !.dataset_infos = infos],
              error |-> UnknownType(dataset_element.type)]

\* ------------------------------------------------------ serialize: output

\* Text split at a separator: one field more than there are separators.
SplitOn(s, sep) ==
    LET cuts == {i \in DOMAIN s : s[i] = sep}
        Cut(k) == CHOOSE i \in cuts : Cardinality({j \in cuts : j < i}) = k - 1
        n == Cardinality(cuts)
    IN  [k \in 1..(n + 1) |->
            SubSeq(s, IF k = 1 THEN 1 ELSE Cut(k - 1) + 1,
                      IF k = n + 1 THEN Len(s) ELSE Cut(k) - 1)]

RECURSIVE Flatten(_)
Flatten(seqs) == IF seqs = <<>> THEN <<>> ELSE Head(seqs) \o Flatten(Tail(seqs))

\* open(mode='wt') and the writes up to close: the file holds exactly text.
\* FileNotFoundError when the directory is missing.
WriteText(f, a, text) ==
    IF IsDir(f, Parent(a)) /\ ~IsDir(f, a)
    THEN [fs |-> FsPut(f, a, FileNode(text)), error |-> None]
    ELSE [fs |-> f, error |-> "FileNotFoundError"]

FileTableHeader ==
    <<"path[POSIX]", TAB, "size[bytes]", TAB, "checksum[md5]", TAB, "url", TAB,
      "annex_key", TAB, "locations", NL>>

\* A faulty variant: the checksum column is left out.
FileTableRow_no_checksum(file_info) ==
    file_info.path \o <<TAB, DecStr(file_info.byte_size), TAB>> \o file_info.url
    \o (IF file_info.annexed
        THEN <<TAB, file_info.annex_key[1]>>
             \o Flatten([i \in DOMAIN file_info.annex_locations[1] |->
                            <<TAB, file_info.annex_locations[1][i]>>])
        ELSE <<>>)
    \o <<NL>>

\* What the loop body of output_file_table writes for one file.
FileTableRow(file_info) ==
    file_info.path \o <<TAB, DecStr(file_info.byte_size), TAB, TAB>> \o file_info.url
    \o (IF file_info.annexed
        THEN <<TAB, file_info.annex_key[1]>>
             \o Flatten([i \in DOMAIN file_info.annex_locations[1] |->
                            <<TAB, file_info.annex_locations[1][i]>>])
        ELSE <<>>)
    \o <<NL>>

output_file_table(version_dir, files, f) ==
    WriteText(f, Abs(Child(version_dir, "file.tsv")),
              FileTableHeader
              \o Flatten([i \in DOMAIN files |-> FileTableRow(files[i][2])]))

SubdatasetTableHeader ==
    <<"path[POSIX]", TAB, "dataset-UUID", TAB, "dataset-version", NL>>

output_subdataset_table(version_dir, subdatasets, f) ==
    IF subdatasets = <<>> THEN [fs |-> f, error |-> None]
    ELSE WriteText(f, Abs(Child(version_dir, "subdatasets.tsv")),
                   SubdatasetTableHeader
                   \o Flatten([i \in DOMAIN subdatasets |->
                        <<subdatasets[i][1], TAB, subdatasets[i][2].dataset_id, TAB,
                          subdatasets[i][2].dataset_version, NL>>]))

output_dataset_version(dataset_dir, version, dataset_version_info, f) ==
    LET version_dir == Child(dataset_dir, version)
        r1 == Mkdir(f, Abs(version_dir), TRUE)
        r2 == output_file_table(version_dir, dataset_version_info.files, r1.fs)
    IN  IF r1.error # None THEN r1
        ELSE IF r2.error # None THEN r2
        ELSE output_subdataset_table(version_dir, dataset_version_info.sub_datasets, r2.fs)

\* The loop of output_dataset over the versions from the n-th on.
RECURSIVE OutputVersions(_, _, _, _)
OutputVersions(id_dir, versions, n, f) ==
    IF n > Len(versions) THEN [fs |-> f, error |-> None]
    ELSE LET r == output_dataset_version(id_dir, versions[n][1], versions[n][2], f)
         IN  IF r.error # None THEN r ELSE OutputVersions(id_dir, versions, n + 1, r.fs)

output_dataset(output_dir, dataset_id, dataset_info, f) ==
    LET id_dir == Child(output_dir, dataset_id)
        r1 == Mkdir(f, Abs(id_dir), TRUE)
    IN  IF r1.error # None THEN r1
        ELSE OutputVersions(id_dir, dataset_info.dataset_versions, 1, r1.fs)

\* The loop of output over the datasets from the n-th on.
RECURSIVE OutputDatasets(_, _, _, _)
OutputDatasets(output_dir, infos, n, f) ==
    IF n > Len(infos) THEN [fs |-> f, error |-> None]
    ELSE LET r == output_dataset(output_dir, infos[n][1], infos[n][2], f)
         IN  IF r.error # None THEN r ELSE OutputDatasets(output_dir, infos, n + 1, r.fs)

\* Path.symlink_to(target): the link holds the target as given.
Symlink(f, a, target) ==
    IF a \in DOMAIN f THEN [fs |-> f, error |-> "FileExistsError"]
    ELSE IF ~IsDir(f, Parent(a)) THEN [fs |-> f, error |-> "FileNotFoundError"]
    ELSE [fs |-> FsPut(f, a, LinkNode(target)), error |-> None]

output(ser, output_dir_arg, f) ==
    LET output_dir == Path(output_dir_arg)
        r1 == Mkdir(f, Abs(output_dir), TRUE)
        r2 == OutputDatasets(output_dir, ser.dataset_infos, 1, r1.fs)
    IN  IF r1.error # None THEN r1
        ELSE IF r2.error # None THEN r2
        ELSE Symlink(r2.fs, Abs(Child(output_dir, "root")),
                     Child(Child(output_dir, ser.start_dataset_id),
                           ser.start_dataset_version))

\* ------------------------------------------------------------ deserialize

\* The rows csv.reader yields for a text: one per line, a line's fields split at
\* the delimiter, an empty line giving the empty row.
Lines(text) ==
    LET pieces == SplitOn(text, NL)
    IN  IF pieces[Len(pieces)] = <<>> THEN SubSeq(pieces, 1, Len(pieces) - 1)
        ELSE pieces

Fields(line) == IF line = <<>> THEN <<>> ELSE SplitOn(line, TAB)

CsvRows(text) == [i \in DOMAIN Lines(text) |-> Fields(Lines(text)[i])]

\* read_tsv: the rows after the first.
read_tsv(f, a) ==
    IF ~IsFile(f, a) THEN [rows |-> <<>>, error |-> "FileNotFoundError"]
    ELSE IF CsvRows(f[a].data) = <<>> THEN [rows |-> <<>>, error |-> "RuntimeError"]
    ELSE [rows |-> Tail(CsvRows(f[a].data)), error |-> None]

\* url[7:]: the seven characters of the scheme are the url's first token.
StripScheme(url) == IF url = <<>> THEN <<>> ELSE Tail(url)

DeResult(f, err, created, copied, saved) ==
    [fs |-> f, error |-> err, created |-> created, copied |-> copied, saved |-> saved]

\* The loop of de_serialize over the rows from the n-th on.
RECURSIVE CopyRows(_, _, _, _)
CopyRows(rows, n, output_dir, acc) ==
    IF n > Len(rows) THEN acc
    ELSE IF Len(rows[n]) # 4 THEN [acc EXCEPT !.error = "ValueError"]
    ELSE LET name == rows[n][1]
             url == StripScheme(rows[n][4])
             dest == Join(output_dir, Path(name))
             r == Mkdir(acc.fs, Parent(Abs(dest)), TRUE)
         IN  IF r.error # None THEN [acc EXCEPT !.error = r.error]
             ELSE IF ~IsFile(r.fs, Abs(Path(url)))
             THEN [acc EXCEPT !.fs = r.fs, !.error = "FileNotFoundError"]
             ELSE CopyRows(rows, n + 1, output_dir,
                      [acc EXCEPT !.fs = FsPut(r.fs, Abs(dest),
                                               FileNode(r.fs[Abs(Path(url))].data)),
                                  !.copied = Append(@, <<Abs(Path(url)), Abs(dest)>>)])

\* Dataset(output_dir).create() makes the directory a dataset; dataset.save()
\* commits what was copied into it.
de_serialize(dataset_dir, output_dir, f) ==
    LET file_table == Child(dataset_dir, "files.tsv")
        subdataset_table == Child(dataset_dir, "subdatasets.tsv")
        created == FsPut(f, Append(Abs(output_dir), ".datalad"), DirNode)
        table == read_tsv(created, Abs(file_table))
        start == DeResult(created, None, {Abs(output_dir)}, <<>>, FALSE)
        done == CopyRows(table.rows, 1, output_dir, start)
    IN  IF Abs(file_table) \notin DOMAIN f \/ Abs(subdataset_table) \notin DOMAIN f
        THEN DeResult(f, "AssertionError", {}, <<>>, FALSE)
        ELSE IF table.error # None THEN [start EXCEPT !.error = table.error]
        ELSE IF done.error # None THEN done
        ELSE [done EXCEPT !.saved = TRUE]

\* A faulty variant: the destination may exist.
deserialize_main_exist_ok(serialized_dir_arg, output_dir_arg, f) ==
    LET root_dataset_link == Abs(Child(Path(serialized_dir_arg), "root"))
        output_dir == Path(output_dir_arg)
        made == Mkdir(f, Abs(output_dir), TRUE)
    IN  IF ~IsLink(f, root_dataset_link) THEN DeResult(f, "OSError", {}, <<>>, FALSE)
        ELSE IF made.error # None THEN DeResult(f, made.error, {}, <<>>, FALSE)
        ELSE de_serialize(f[root_dataset_link].target, output_dir, made.fs)

\* main() of the deserialize command. readlink() gives the link's target as
\* stored, which the command then uses from its working directory.
deserialize_main(serialized_dir_arg, output_dir_arg, f) ==
    LET root_dataset_link == Abs(Child(Path(serialized_dir_arg), "root"))
        output_dir == Path(output_dir_arg)
        made == Mkdir(f, Abs(output_dir), FALSE)
    IN  IF ~IsLink(f, root_dataset_link) THEN DeResult(f, "OSError", {}, <<>>, FALSE)
        ELSE IF made.error # None THEN DeResult(f, made.error, {}, <<>>, FALSE)
        ELSE de_serialize(f[root_dataset_link].target, output_dir, made.fs)

\* ------------------------------------------------- the commands' arguments

\* --output_dir: the default, a relative directory, an absolute directory
OutputDirArgs == { <<".">>, <<"out">>, <<SEP, "t", SEP, "out">> }

\* deserialize's output_dir: a new directory, an existing one
DestArgs == { <<"dst">>, <<"old">> }

DeIdle ==
    [state |-> "idle", dest |-> <<>>, existed |-> FALSE, error |-> None,
     created |-> {}, copied |-> <<>>, saved |-> FALSE]

LdIdle == [state |-> "idle"]

\* ----------------------------------------------------------------- actions

\* The serialize command has parsed its arguments and built its empty
\* SerializationInfo; nothing is folded, printed or written yet.
Init ==
    /\ folded = <<>>
    /\ serialization = [start_dataset_id |-> StartId,
                        start_dataset_version |-> StartVersion,
                        dataset_infos |-> <<>>]
    /\ pc = "fold"
    /\ error = NoError
    /\ stdout = <<>>
    /\ fs = InitFs
    /\ out_arg \in OutputDirArgs
    /\ de = DeIdle
    /\ ld = LdIdle

\* One turn of main()'s loop: the traversal yields a record and process() folds
\* it; an exception of process() ends the run.
Fold(result) ==
    /\ pc = "fold"
    /\ Len(folded) < MaxRecords
    /\ folded' = Append(folded, result)
    /\ serialization' = process(result, serialization).ser
    /\ error' = process(result, serialization).error
    /\ pc' = IF process(result, serialization).error.kind # None THEN "error" ELSE "fold"
    /\ UNCHANGED <<stdout, fs, out_arg, de, ld>>

\* The traversal is exhausted: main() prints the dump and writes the output.
Finish ==
    /\ pc = "fold"
    /\ stdout' = Append(stdout, serialization)
    /\ fs' = output(serialization, out_arg, fs).fs
    /\ error' = [kind |-> output(serialization, out_arg, fs).error, msg |-> <<>>]
    /\ pc' = IF output(serialization, out_arg, fs).error # None THEN "outfail" ELSE "done"
    /\ UNCHANGED <<folded, serialization, out_arg, de, ld>>

\* The deserialize command, run on the directory serialize wrote.
Deserialize(dest_arg) ==
    /\ pc = "done"
    /\ de.state = "idle"
    /\ LET r == deserialize_main(out_arg, dest_arg, fs)
       IN  /\ fs' = r.fs
           /\ de' = [state |-> "ran", dest |-> dest_arg,
                     existed |-> Abs(Path(dest_arg)) \in DOMAIN fs,
                     error |-> r.error, created |-> r.created,
                     copied |-> r.copied, saved |-> r.saved]
    /\ UNCHANGED <<folded, serialization, pc, error, stdout, out_arg, ld>>

Next ==
    \/ \E result \in Elements : Fold(result)
    \/ Finish
    \/ \E dest_arg \in DestArgs : Deserialize(dest_arg)

Spec == Init /\ [][Next]_vars

\* ============================================================ the loader
\* io/load.py. A row is what csv.reader yields: a sequence of cells, each a
\* string. Values are tagged: a string (its tokens), a list (its items), a
\* dict (its pairs), None.

Str(tokens) == [t |-> "str", v |-> tokens]
List(items) == [t |-> "list", v |-> items]
Dict(pairs) == [t |-> "dict", v |-> pairs]
NoneVal == [t |-> "none", v |-> <<>>]

\* Python's truth value of a string, list or dict; None is false.
Truthy(val) == val.v # <<>>

\* str.startswith
StartsWith(s, prefix) ==
    Len(s) >= Len(prefix) /\ SubSeq(s, 1, Len(prefix)) = prefix

\* The number of sheet rows in a loaded sheet is at most this.
MaxSheetRows == 3

\* ----------------------------------------------------- the record directory

\* The sheet being loaded and the sheets beside it.
TopSheet == [dir |-> "rec", sheet |-> <<"top">>]

ImportMany == Str(<<"@tabby-", "many-", "sub">>)
ImportSingle == Str(<<"@tabby-", "single-", "one">>)
\* A cell that starts with @tabby- and carries neither marker.
ImportOther == Str(<<"@tabby-", "other">>)
Empty == Str(<<>>)

SiblingRows(sheet) ==
    IF sheet = <<"sub">>
    THEN << <<Str(<<"name">>), Str(<<"size">>)>>,
            <<Str(<<"s1">>), Str(<<"1">>)>> >>
    ELSE IF sheet = <<"one">>
    THEN << <<Str(<<"title">>), Str(<<"t">>)>>,
            <<Str(<<"parts">>), ImportMany>> >>
    ELSE <<>>

\* Other record directories: in "cyc" the sheet a imports b and b imports a;
\* in "self" the sheet s imports itself; in "hdr" the sheet h names itself in
\* its first row only; in "chain" the sheet c1 imports c2, c2 imports c3.
OtherRows(src) ==
    IF src.dir = "cyc" /\ src.sheet = <<"a">>
    THEN << <<Str(<<"title">>), Str(<<"t">>)>>,
            <<Str(<<"next">>), Str(<<"@tabby-", "many-", "b">>)>> >>
    ELSE IF src.dir = "cyc" /\ src.sheet = <<"b">>
    THEN << <<Str(<<"name">>), Str(<<"back">>)>>,
            <<Str(<<"b1">>), Str(<<"@tabby-", "single-", "a">>)>> >>
    ELSE IF src.dir = "self" /\ src.sheet = <<"s">>
    THEN << <<Str(<<"name">>), Str(<<"me">>)>>,
            <<Str(<<"s1">>), Str(<<"@tabby-", "many-", "s">>)>> >>
    ELSE IF src.dir = "hdr" /\ src.sheet = <<"h">>
    THEN << <<Str(<<"name">>), Str(<<"@tabby-", "many-", "h">>)>>,
            <<Str(<<"h1">>), Str(<<"1">>)>> >>
    ELSE IF src.dir = "chain" /\ src.sheet = <<"c1">>
    THEN << <<Str(<<"name">>), Str(<<"sub">>)>>,
            <<Str(<<"x">>), Str(<<"@tabby-", "single-", "c2">>)>>,
            <<Str(<<"y">>), Str(<<"@tabby-", "other">>)>> >>
    ELSE IF src.dir = "chain" /\ src.sheet = <<"c2">>
    THEN << <<Str(<<"title">>), Str(<<"t">>)>>,
            <<Str(<<"more">>), Str(<<"@tabby-", "many-", "c3">>), Str(<<"lit">>)>> >>
    ELSE IF src.dir = "chain" /\ src.sheet = <<"c3">>
    THEN << <<Str(<<"name">>)>>, <<Str(<<"z">>)>> >>
    ELSE <<>>

\* The rows a sheet file holds.
SheetRows(src) ==
    IF src = TopSheet THEN ld.rows
    ELSE IF src.dir = TopSheet.dir THEN SiblingRows(src.sheet)
    ELSE OtherRows(src)

CtxKey == <<"@context">>
TopContext == Dict(<< <<<<"top">>, Str(<<"iri-top">>)>> >>)
SubContext == Dict(<< <<<<"sub">>, Str(<<"iri-sub">>)>> >>)
OneContext == Dict(<< <<<<"one">>, Str(<<"iri-one">>)>> >>)

\* _get_corresponding_context: the context declared for the sheet, or None.
\* The sheets "sub" and "one" have one each, the top sheet as the run has it.
_get_corresponding_context(src) ==
    IF src = TopSheet THEN (IF ld.has_ctx THEN TopContext ELSE NoneVal)
    ELSE IF src.sheet = <<"sub">> THEN SubContext
    ELSE IF src.sheet = <<"one">> THEN OneContext
    ELSE NoneVal

\* _assigned_context: the context is merged into the record's @context, after
\* what is there already.
RECURSIVE DictUpdate(_, _)
DictUpdate(d, e) ==
    IF e = <<>> THEN d ELSE DictUpdate(DictSet(d, e[1][1], e[1][2]), Tail(e))

_assigned_context(obj, ctx) ==
    IF DictHas(obj, CtxKey)
    THEN DictSet(obj, CtxKey, Dict(DictUpdate(DictGet(obj, CtxKey).v, ctx.v)))
    ELSE DictSet(obj, CtxKey, ctx)

\* _build_overrides: the overrides the sheet's sidecar declares; the sheet
\* "one" declares one, the others none.
_build_overrides(src, obj) ==
    IF src.sheet = <<"one">> THEN << <<<<"license">>, List(<<Str(<<"cc0">>)>>)>> >>
    ELSE <<>>

\* _get_index_after_last_nonempty: one past the last item that is not the
\* empty string and not None; 0 when there is none.
_get_index_after_last_nonempty(val) ==
    LET nonempty == {i \in DOMAIN val :
                        ~(val[i].t = "none" \/ (val[i].t = "str" /\ val[i].v = <<>>))}
    IN  IF nonempty = {} THEN 0 ELSE SetMax(nonempty)

\* _compact_obj: a value that is a list of exactly one item becomes that item.
_compact_obj(obj) ==
    [i \in DOMAIN obj |->
        <<obj[i][1],
          IF obj[i][2].t = "list" /\ Len(obj[i][2].v) = 1
          THEN obj[i][2].v[1] ELSE obj[i][2]>>]

\* _get_corresponding_sheet_fpath: the named sheet beside the referring one.
_get_corresponding_sheet_fpath(src_sheet_fpath, name) ==
    [dir |-> src_sheet_fpath.dir, sheet |-> name]

\* _build_import_trace: the chain of imports, extended.
_build_import_trace(src, trace) == Append(trace, src)

\* ------------------------------------------------------------- io/load.py

RECURSIVE _load_tabby_single(_, _, _, _)
RECURSIVE _load_tabby_many(_, _, _, _)

\* A faulty variant: the recursive flag is not looked at.
_resolve_value_always(v, src_sheet_fpath, jsonld, recursive, trace) ==
    IF ~StartsWith(v.v, <<"@tabby-">>) THEN v
    ELSE IF StartsWith(v.v, <<"@tabby-", "single-">>)
    THEN LET src == _get_corresponding_sheet_fpath(src_sheet_fpath,
                                                   SubSeq(v.v, 3, Len(v.v)))
         IN  _load_tabby_single(src, jsonld, recursive, _build_import_trace(src, trace))
    ELSE IF StartsWith(v.v, <<"@tabby-", "many-">>)
    THEN LET src == _get_corresponding_sheet_fpath(src_sheet_fpath,
                                                   SubSeq(v.v, 3, Len(v.v)))
         IN  _load_tabby_many(src, jsonld, recursive, _build_import_trace(src, trace))
    ELSE v

_resolve_value(v, src_sheet_fpath, jsonld, recursive, trace) ==
    IF ~recursive \/ ~StartsWith(v.v, <<"@tabby-">>) THEN v
    ELSE IF StartsWith(v.v, <<"@tabby-", "single-">>)
    THEN LET src == _get_corresponding_sheet_fpath(src_sheet_fpath,
                                                   SubSeq(v.v, 3, Len(v.v)))
         IN  _load_tabby_single(src, jsonld, recursive, _build_import_trace(src, trace))
    ELSE IF StartsWith(v.v, <<"@tabby-", "many-">>)
    THEN LET src == _get_corresponding_sheet_fpath(src_sheet_fpath,
                                                   SubSeq(v.v, 3, Len(v.v)))
         IN  _load_tabby_many(src, jsonld, recursive, _build_import_trace(src, trace))
    ELSE v

\* The rows _load_tabby_single passes over: empty, no key, a comment key.
SingleSkips(row) ==
    Len(row) = 0 \/ ~Truthy(row[1]) \/ StartsWith(row[1].v, <<"#">>)

\* One turn of _load_tabby_single's loop.
SingleRow(obj, row, src, jsonld, recursive, trace) ==
    IF SingleSkips(row) THEN obj
    ELSE LET val == SubSeq(Tail(row), 1, _get_index_after_last_nonempty(Tail(row)))
         IN  IF val = <<>> THEN obj
             ELSE DictSet(obj, row[1].v,
                      List([i \in DOMAIN val |->
                               _resolve_value(val[i], src, jsonld, recursive, trace)]))

RECURSIVE SingleRows(_, _, _, _, _, _, _)
SingleRows(obj, rows, n, src, jsonld, recursive, trace) ==
    IF n > Len(rows) THEN obj
    ELSE SingleRows(SingleRow(obj, rows[n], src, jsonld, recursive, trace),
                    rows, n + 1, src, jsonld, recursive, trace)

_load_tabby_single(src, jsonld, recursive, trace) ==
    LET read == SingleRows(<<>>, SheetRows(src), 1, src, jsonld, recursive, trace)
        obj == _compact_obj(DictUpdate(read, _build_overrides(src, read)))
        ctx == _get_corresponding_context(src)
    IN  IF ~jsonld THEN Dict(obj)
        ELSE IF Truthy(ctx) THEN Dict(_assigned_context(obj, ctx))
        ELSE Dict(obj)

\* The loop of _manyrow2obj that merges values with keys from the i-th on.
RECURSIVE MergeKeys(_, _, _, _)
MergeKeys(fieldnames, vals, i, obj) ==
    IF i > Len(fieldnames) THEN obj
    ELSE IF i > Len(vals) \/ ~Truthy(vals[i]) THEN MergeKeys(fieldnames, vals, i + 1, obj)
    ELSE LET k == fieldnames[i].v
             k_vals == IF DictHas(obj, k) THEN DictGet(obj, k).v ELSE <<>>
         IN  MergeKeys(fieldnames, vals, i + 1,
                       DictSet(obj, k, List(Append(k_vals, vals[i]))))

_manyrow2obj(src, row, jsonld, fieldnames, recursive, trace) ==
    LET resolved == [i \in DOMAIN row |->
                        IF Truthy(row[i])
                        THEN _resolve_value(row[i], src, jsonld, recursive, trace)
                        ELSE row[i]]
        \* vals[len(fieldnames) - 1], which is vals[-1] without field names
        last_key_idx == IF Len(fieldnames) = 0 THEN Len(resolved) ELSE Len(fieldnames)
        lc_vals == SubSeq(resolved, last_key_idx, Len(resolved))
        vals == IF Len(resolved) > Len(fieldnames)
                THEN [resolved EXCEPT ![last_key_idx] =
                         List(SubSeq(lc_vals, 1, _get_index_after_last_nonempty(lc_vals)))]
                ELSE resolved
        obj == MergeKeys(fieldnames, vals, 1, <<>>)
    IN  DictUpdate(obj, _build_overrides(src, obj))

\* The rows _load_tabby_many passes over: empty, a comment key, all cells None
\* (csv.reader yields strings, so no cell of a row is None).
ManySkips(row) ==
    \/ Len(row) = 0
    \/ StartsWith(row[1].v, <<"#">>)
    \/ \A i \in DOMAIN row : row[i].t = "none"

\* One turn of _load_tabby_many's loop on st = [fieldnames, array].
ManyRow(st, row, src, jsonld, recursive, trace, ctx) ==
    IF ManySkips(row) THEN st
    ELSE IF st.fieldnames = NoneVal
    THEN [st EXCEPT !.fieldnames =
             List(SubSeq(row, 1, _get_index_after_last_nonempty(row)))]
    ELSE LET obj == _manyrow2obj(src, row, jsonld, st.fieldnames.v, recursive, trace)
         IN  [st EXCEPT !.array =
                 Append(@, Dict(_compact_obj(IF Truthy(ctx)
                                             THEN _assigned_context(obj, ctx)
                                             ELSE obj)))]

RECURSIVE ManyRows(_, _, _, _, _, _, _, _)
ManyRows(st, rows, n, src, jsonld, recursive, trace, ctx) ==
    IF n > Len(rows) THEN st
    ELSE ManyRows(ManyRow(st, rows[n], src, jsonld, recursive, trace, ctx),
                  rows, n + 1, src, jsonld, recursive, trace, ctx)

_load_tabby_many(src, jsonld, recursive, trace) ==
    List(ManyRows([fieldnames |-> NoneVal, array |-> <<>>], SheetRows(src), 1,
                  src, jsonld, recursive, trace,
                  _get_corresponding_context(src)).array)

load_tabby(src, single, jsonld, recursive) ==
    IF single THEN _load_tabby_single(src, jsonld, recursive, <<>>)
    ELSE _load_tabby_many(src, jsonld, recursive, <<>>)

\* The rows a sheet under load is made of.
SheetRowSet ==
    { <<>>,
      <<Empty, Empty>>,
      <<Empty, Str(<<"x">>)>>,
      <<Str(<<"#", "c">>), Str(<<"x">>)>>,
      <<Str(<<"name">>), Str(<<"size">>)>>,
      <<Str(<<"f1">>), ImportMany>>,
      <<Str(<<"k">>), ImportSingle>>,
      <<Str(<<"u">>), ImportOther>>,
      <<Str(<<"f2">>), Str(<<"20">>), Str(<<"extra">>)>>,
      <<Str(<<"f2">>), Str(<<"20">>)>>,
      <<Str(<<"f2">>), Str(<<"20">>), Empty>> }

Sheets == UNION {[1..n -> SheetRowSet] : n \in 0..MaxSheetRows}

\* A caller is about to load the sheet: its rows, whether a context is
\* declared for it, and load_tabby's arguments.
InitLoad ==
    /\ folded = <<>>
    /\ serialization = [start_dataset_id |-> StartId,
                        start_dataset_version |-> StartVersion,
                        dataset_infos |-> <<>>]
    /\ pc = "fold"
    /\ error = NoError
    /\ stdout = <<>>
    /\ fs = InitFs
    /\ out_arg = <<".">>
    /\ de = DeIdle
    /\ \E rows \in Sheets, single, jsonld, recursive, has_ctx \in BOOLEAN :
          ld = [state |-> "ready", rows |-> rows, single |-> single,
                jsonld |-> jsonld, recursive |-> recursive, has_ctx |-> has_ctx,
                result |-> NoneVal]

Load ==
    /\ ld.state = "ready"
    /\ ld' = [ld EXCEPT !.state = "done",
                        !.result = load_tabby(TopSheet, ld.single, ld.jsonld,
                                              ld.recursive)]
    /\ UNCHANGED <<folded, serialization, pc, error, stdout, fs, out_arg, de>>

NextLoad == Load

SpecLoad == InitLoad /\ [][NextLoad]_vars

\* ------------------------------------------------ the loader, call by call
\* The same load with its calls laid out: a frame for each load in progress,
\* the innermost last. A frame holds the sheet, the mode, the import trace it
\* was called with and the cells it still has to pass to _resolve_value. Of
\* what the loads build, which is load_tabby's above, only the kind is kept:
\* the mapping of _load_tabby_single or the list of _load_tabby_many.

\* The frames the interpreter has room for: past this depth a call raises
\* RecursionError, which load.py does not catch.
MaxDepth == 4

\* The cells of a row that _load_tabby_single passes to _resolve_value.
SingleResolved(row) ==
    IF SingleSkips(row) THEN <<>>
    ELSE SubSeq(Tail(row), 1, _get_index_after_last_nonempty(Tail(row)))

\* The cells of a data row that _manyrow2obj passes to _resolve_value.
ManyResolved(row) == SelectSeq(row, Truthy)

\* The cells of the rows from the n-th on, in the order the loader meets them;
\* in many-object mode the first row not skipped is the header.
RECURSIVE ResolvedFrom(_, _, _, _)
ResolvedFrom(rows, n, single, header) ==
    IF n > Len(rows) THEN <<>>
    ELSE IF single
    THEN SingleResolved(rows[n]) \o ResolvedFrom(rows, n + 1, single, header)
    ELSE IF ManySkips(rows[n]) THEN ResolvedFrom(rows, n + 1, single, header)
    ELSE IF ~header THEN ResolvedFrom(rows, n + 1, single, TRUE)
    ELSE ManyResolved(rows[n]) \o ResolvedFrom(rows, n + 1, single, header)

Frame(src, single, trace) ==
    [src |-> src, single |-> single, trace |-> trace,
     todo |-> ResolvedFrom(SheetRows(src), 1, single, FALSE)]

\* A faulty variant: the recursive flag is not looked at.
Import_always(v, src_sheet_fpath, recursive) ==
    IF ~StartsWith(v.v, <<"@tabby-">>) THEN Unset
    ELSE IF StartsWith(v.v, <<"@tabby-", "single-">>)
    THEN Some([single |-> TRUE,
               src |-> _get_corresponding_sheet_fpath(src_sheet_fpath,
                                                      SubSeq(v.v, 3, Len(v.v)))])
    ELSE IF StartsWith(v.v, <<"@tabby-", "many-">>)
    THEN Some([single |-> FALSE,
               src |-> _get_corresponding_sheet_fpath(src_sheet_fpath,
                                                      SubSeq(v.v, 3, Len(v.v)))])
    ELSE Unset

\* The load _resolve_value calls for the cell, if it calls one.
Import(v, src_sheet_fpath, recursive) ==
    IF ~recursive \/ ~StartsWith(v.v, <<"@tabby-">>) THEN Unset
    ELSE IF StartsWith(v.v, <<"@tabby-", "single-">>)
    THEN Some([single |-> TRUE,
               src |-> _get_corresponding_sheet_fpath(src_sheet_fpath,
                                                      SubSeq(v.v, 3, Len(v.v)))])
    ELSE IF StartsWith(v.v, <<"@tabby-", "many-">>)
    THEN Some([single |-> FALSE,
               src |-> _get_corresponding_sheet_fpath(src_sheet_fpath,
                                                      SubSeq(v.v, 3, Len(v.v)))])
    ELSE Unset

\* The sheets a caller loads.
StartSheets ==
    { [dir |-> "rec", sheet |-> <<"one">>], [dir |-> "rec", sheet |-> <<"sub">>],
      [dir |-> "cyc", sheet |-> <<"a">>], [dir |-> "cyc", sheet |-> <<"b">>],
      [dir |-> "self", sheet |-> <<"s">>], [dir |-> "hdr", sheet |-> <<"h">>],
      [dir |-> "chain", sheet |-> <<"c1">>], [dir |-> "chain", sheet |-> <<"c2">>] }

\* load_tabby has been called and has called the loader of its mode.
InitImports ==
    /\ folded = <<>>
    /\ serialization = [start_dataset_id |-> StartId,
                        start_dataset_version |-> StartVersion,
                        dataset_infos |-> <<>>]
    /\ pc = "fold"
    /\ error = NoError
    /\ stdout = <<>>
    /\ fs = InitFs
    /\ out_arg = <<".">>
    /\ de = DeIdle
    /\ \E src \in StartSheets, single, jsonld, recursive \in BOOLEAN :
          ld = [state |-> "loading", src |-> src, single |-> single,
                jsonld |-> jsonld, recursive |-> recursive,
                stack |-> <<Frame(src, single, <<>>)>>, returns |-> "nothing"]

Top == ld.stack[Len(ld.stack)]

Callee == Import(Head(Top.todo), Top.src, ld.recursive)

\* _resolve_value returns the cell as it is.
Keep ==
    /\ ld.state = "loading"
    /\ Top.todo # <<>>
    /\ ~IsSet(Callee)
    /\ ld' = [ld EXCEPT !.stack[Len(ld.stack)].todo = Tail(@)]
    /\ UNCHANGED <<folded, serialization, pc, error, stdout, fs, out_arg, de>>

\* _resolve_value extends the trace and calls the loader of the marker.
Call ==
    /\ ld.state = "loading"
    /\ Top.todo # <<>>
    /\ IsSet(Callee)
    /\ Len(ld.stack) < MaxDepth
    /\ ld' = [ld EXCEPT !.stack =
                 Append(@, Frame(Callee[1].src, Callee[1].single,
                                 _build_import_trace(Callee[1].src, Top.trace)))]
    /\ UNCHANGED <<folded, serialization, pc, error, stdout, fs, out_arg, de>>

\* The call has no frame left: RecursionError leaves load_tabby.
Exhaust ==
    /\ ld.state = "loading"
    /\ Top.todo # <<>>
    /\ IsSet(Callee)
    /\ Len(ld.stack) >= MaxDepth
    /\ ld' = [ld EXCEPT !.state = "raised"]
    /\ UNCHANGED <<folded, serialization, pc, error, stdout, fs, out_arg, de>>

\* A loader has read its sheet: it returns to the cell that called it, the
\* outermost to load_tabby's caller.
Return ==
    /\ ld.state = "loading"
    /\ Top.todo = <<>>
    /\ IF Len(ld.stack) = 1
       THEN ld' = [ld EXCEPT !.state = "done", !.stack = <<>>,
                             !.returns = IF ld.single THEN "dict" ELSE "list"]
       ELSE ld' = [ld EXCEPT !.stack =
                      [SubSeq(@, 1, Len(@) - 1) EXCEPT ![Len(@) - 1].todo = Tail(@)]]
    /\ UNCHANGED <<folded, serialization, pc, error, stdout, fs, out_arg, de>>

NextImports == Keep \/ Call \/ Exhaust \/ Return

\* The program is one thread that runs on whenever it can.
SpecImports == InitImports /\ [][NextImports]_vars /\ WF_vars(NextImports)

\* ------------------------------------------------- claims: serialize, fold

SetMin(S) == CHOOSE x \in S : \A y \in S : x <= y

Infos == serialization.dataset_infos

HasRoot(elem) == "root_dataset_id" \in DOMAIN elem

\* Every DatasetVersionInfo held, as <<dataset id, version, info>>.
AllVersions ==
    UNION {{<<Infos[i][1], Infos[i][2].dataset_versions[j][1],
              Infos[i][2].dataset_versions[j][2]>> :
               j \in DOMAIN Infos[i][2].dataset_versions} : i \in DOMAIN Infos}

\* The folded records that link a sub-dataset at mount below (id, version).
LinkRecords(id, version, mount) ==
    {i \in DOMAIN folded :
        /\ HasRoot(folded[i])
        /\ folded[i].root_dataset_id = id
        /\ folded[i].root_dataset_version = version
        /\ folded[i].dataset_path = mount}

\* The folded file records of path in (id, version).
FileRecords(id, version, path) ==
    {i \in DOMAIN folded :
        /\ folded[i].type = "file"
        /\ folded[i].dataset_id = id
        /\ folded[i].dataset_version = version
        /\ folded[i].intra_dataset_path = path}

\* C2: once process() has folded a record that carries root_dataset_id and
\* root_dataset_version, the DatasetVersionInfo of that root id and version
\* exists and its sub_datasets holds, at the record's dataset_path, a
\* SubdatasetInfo with the record's dataset_version and the root (parent)
\* dataset's id; every sub_datasets entry is the one written by the last such
\* record for its key, so a record without the root fields adds and changes none.
C2_SubdatasetLinkage ==
    /\ \A i \in DOMAIN folded :
          HasRoot(folded[i]) =>
             /\ HasVersion(Infos, folded[i].root_dataset_id,
                           folded[i].root_dataset_version)
             /\ DictHas(VersionInfo(Infos, folded[i].root_dataset_id,
                                    folded[i].root_dataset_version).sub_datasets,
                        folded[i].dataset_path)
    /\ \A v \in AllVersions :
          \A k \in DOMAIN v[3].sub_datasets :
             LET mount == v[3].sub_datasets[k][1]
                 sub == v[3].sub_datasets[k][2]
                 links == LinkRecords(v[1], v[2], mount)
             IN  /\ links # {}
                 /\ sub.dataset_id = v[1]
                 /\ sub.dataset_version = folded[SetMax(links)].dataset_version

\* C2's case: two records have linked different versions at the same mount path
\* and the entry carries the later one's version under the parent's id.
C2_Witness ==
    /\ Len(folded) >= 2
    /\ HasRoot(folded[1]) /\ HasRoot(folded[2])
    /\ folded[1].dataset_version # folded[2].dataset_version
    /\ folded[1].dataset_id # folded[1].root_dataset_id
    /\ HasVersion(Infos, StartId, StartVersion)
    /\ DictHas(VersionInfo(Infos, StartId, StartVersion).sub_datasets, "sub")
    /\ DictGet(VersionInfo(Infos, StartId, StartVersion).sub_datasets, "sub") =
          [dataset_id |-> StartId, dataset_version |-> folded[2].dataset_version]

\* C3: file registration is first-write-wins and nothing is removed: every
\* folded record's DatasetInfo and DatasetVersionInfo (and its root's) is held,
\* and for every dataset id, version and intra-dataset path the FileInfo held is
\* the one built from the first folded file record of that triple, and is held
\* as soon as there is such a record.
C3_FirstWriteWins ==
    /\ \A i \in DOMAIN folded :
          /\ HasVersion(Infos, folded[i].dataset_id, folded[i].dataset_version)
          /\ HasRoot(folded[i]) =>
                HasVersion(Infos, folded[i].root_dataset_id,
                           folded[i].root_dataset_version)
          /\ folded[i].type = "file" =>
                LET files == VersionInfo(Infos, folded[i].dataset_id,
                                         folded[i].dataset_version).files
                    path == folded[i].intra_dataset_path
                    first == SetMin(FileRecords(folded[i].dataset_id,
                                                folded[i].dataset_version, path))
                IN  /\ DictHas(files, path)
                    /\ DictGet(files, path) = NewFileInfo(folded[first])
    /\ \A v \in AllVersions :
          \A k \in DOMAIN v[3].files :
             FileRecords(v[1], v[2], v[3].files[k][1]) # {}

\* C3's case: a second, different file record for a path already registered
\* has been folded.
C3_Witness ==
    \E i, j \in DOMAIN folded :
        /\ i < j
        /\ folded[i].type = "file" /\ folded[j].type = "file"
        /\ folded[i].dataset_id = folded[j].dataset_id
        /\ folded[i].dataset_version = folded[j].dataset_version
        /\ folded[i].intra_dataset_path = folded[j].intra_dataset_path
        /\ folded[i].bytesize # folded[j].bytesize

\* C4: in every SerializationInfo reached by folding records, a FileInfo has
\* annex_key and annex_locations set exactly when its annexed field is true.
C4_AnnexFieldsIffAnnexed ==
    \A v \in AllVersions :
       \A k \in DOMAIN v[3].files :
          LET file_info == v[3].files[k][2]
          IN  /\ file_info.annexed =>
                    IsSet(file_info.annex_key) /\ IsSet(file_info.annex_locations)
              /\ ~file_info.annexed =>
                    ~IsSet(file_info.annex_key) /\ ~IsSet(file_info.annex_locations)

\* C4's case: an annexed and a non-annexed file are registered.
C4_Witness ==
    \E v, w \in AllVersions :
       \E k \in DOMAIN v[3].files, l \in DOMAIN w[3].files :
          v[3].files[k][2].annexed /\ ~w[3].files[l][2].annexed

KnownType(elem) == elem.type \in {"file", "dataset"}

\* C5: a record whose type is neither file nor dataset ends the serialize run at
\* that record with an error naming the type: it is the last record folded, the
\* dump is not printed and nothing is written below the output directory.
C5_UnknownTypeAborts ==
    /\ (\E i \in DOMAIN folded : ~KnownType(folded[i])) =>
          /\ pc = "error"
          /\ ~KnownType(folded[Len(folded)])
          /\ \A i \in 1..(Len(folded) - 1) : KnownType(folded[i])
          /\ error.kind = "ValueError"
          /\ error.msg = <<"unknown element type: ", folded[Len(folded)].type>>
          /\ stdout = <<>>
          /\ fs = InitFs
    /\ pc = "error" => \E i \in DOMAIN folded : ~KnownType(folded[i])

\* C5's case: a record of unknown type came after a record that was folded.
C5_Witness ==
    /\ Len(folded) >= 2
    /\ ~KnownType(folded[Len(folded)])
    /\ pc = "error"

\* ---------------------------------------- claims: the output, deserialize

OutDir == Abs(Path(out_arg))

StartFiles ==
    IF HasVersion(Infos, StartId, StartVersion)
    THEN VersionInfo(Infos, StartId, StartVersion).files ELSE <<>>

\* C1: serializing a dataset that has files and deserializing the output into a
\* fresh destination succeeds, and every serialized file of the start dataset
\* version is at its relative path in the destination with the content of its
\* source.
C1_RoundTrip ==
    (de.state = "ran" /\ ~de.existed /\ StartFiles # <<>>) =>
        /\ de.error = None
        /\ \A k \in DOMAIN StartFiles :
              LET file_info == StartFiles[k][2]
                  dest == Abs(Join(Path(de.dest), Path(file_info.path)))
                  source == Abs(Path(StripScheme(file_info.url)))
              IN  IsFile(fs, dest) /\ fs[dest].data = fs[source].data

\* C6: after a successful serialize run whose traversal covered the start
\* dataset version, the link root in the output directory resolves to the
\* existing directory <output_dir>/<start id>/<start version>, which holds the
\* file table, whatever the output directory argument.
C6_RootLinkResolves ==
    (pc = "done" /\ HasVersion(Infos, StartId, StartVersion)) =>
        /\ IsLink(fs, Append(OutDir, "root"))
        /\ LinkDest(fs, Append(OutDir, "root")) = OutDir \o <<StartId, StartVersion>>
        /\ IsDir(fs, OutDir \o <<StartId, StartVersion>>)
        /\ IsFile(fs, OutDir \o <<StartId, StartVersion, "file.tsv">>)

C8_ExistingDestination ==
    [][(de.state = "idle" /\ de'.state = "ran" /\ de'.existed) =>
          /\ de'.error = "FileExistsError"
          /\ de'.created = {}
          /\ de'.copied = <<>>
          /\ ~de'.saved
          /\ fs' = fs]_vars

\* C8's case: deserialize has run on an existing destination.
C8_Witness ==
    /\ de.state = "ran"
    /\ de.existed
    /\ de.error = "FileExistsError"
    /\ IsFile(fs, <<"w", "old", "keep">>)

\* ------------------------------------------------------ claims: the loader

\* The rows the skip rules of single-object mode pass over, and the rows in
\* which every cell is empty.
ClaimedSkip(row) == SingleSkips(row) \/ \A i \in DOMAIN row : ~Truthy(row[i])

KeptRows == {i \in DOMAIN ld.rows : ~ClaimedSkip(ld.rows[i])}

\* C9: in many-object mode the rows skipped are those single-object mode skips
\* (empty row, empty first field, first field starting with #) and the rows
\* whose cells are all empty; the first row not skipped is the header and the
\* list returned has one record for each later row not skipped.
C9_ManySkipRules ==
    (ld.state = "done" /\ ~ld.single) =>
        /\ \A i \in DOMAIN ld.rows : ManySkips(ld.rows[i]) <=> ClaimedSkip(ld.rows[i])
        /\ Len(ld.result.v) = IF KeptRows = {} THEN 0 ELSE Cardinality(KeptRows) - 1

\* Whether a loaded value holds an @context, at any depth.
RECURSIVE HasContext(_)
HasContext(val) ==
    IF val.t = "dict"
    THEN DictHas(val.v, CtxKey) \/ \E i \in DOMAIN val.v : HasContext(val.v[i][2])
    ELSE IF val.t = "list" THEN \E i \in DOMAIN val.v : HasContext(val.v[i])
    ELSE FALSE

HasTopContext(record) ==
    /\ DictHas(record.v, CtxKey)
    /\ DictHas(DictGet(record.v, CtxKey).v, <<"top">>)

\* C10: with jsonld off no record load_tabby returns, in either mode, at the top
\* or nested through an import, holds an @context; with jsonld on and a context
\* declared for the sheet, every record of the sheet holds it.
C10_ContextOnlyIfRequested ==
    ld.state = "done" =>
        /\ ~ld.jsonld => ~HasContext(ld.result)
        /\ (ld.jsonld /\ ld.has_ctx) =>
              IF ld.single THEN HasTopContext(ld.result)
              ELSE \A i \in DOMAIN ld.result.v : HasTopContext(ld.result.v[i])

\* Python's == on loaded values: strings by their text, lists item by item,
\* mappings key by key whatever the order.
RECURSIVE SameValue(_, _)
SameValue(a, b) ==
    /\ a.t = b.t
    /\ Len(a.v) = Len(b.v)
    /\ IF a.t = "list" THEN \A i \in DOMAIN a.v : SameValue(a.v[i], b.v[i])
       ELSE IF a.t = "dict"
       THEN \A i \in DOMAIN a.v :
               /\ DictHas(b.v, a.v[i][1])
               /\ SameValue(a.v[i][2], DictGet(b.v, a.v[i][1]))
       ELSE a.v = b.v

\* The sheet a cell of the top sheet names after its 14 or 12 marker characters.
Named(cell) == [dir |-> TopSheet.dir, sheet |-> SubSeq(cell.v, 3, Len(cell.v))]

IsSingleImport(cell) == StartsWith(cell.v, <<"@tabby-", "single-">>)
IsManyImport(cell) == StartsWith(cell.v, <<"@tabby-", "many-">>)

\* What the claim has a cell of the top sheet become.
Replaced(cell) ==
    IF ~ld.recursive THEN cell
    ELSE IF IsSingleImport(cell)
    THEN _load_tabby_single(Named(cell), ld.jsonld, ld.recursive, <<Named(cell)>>)
    ELSE IF IsManyImport(cell)
    THEN _load_tabby_many(Named(cell), ld.jsonld, ld.recursive, <<Named(cell)>>)
    ELSE cell

\* The kind of value the claim has a cell become: a mapping that holds the
\* sheet's context exactly with jsonld and whose own imports are resolved, a
\* list, or the literal string.
ReplacedKind(cell, val) ==
    IF ld.recursive /\ cell = ImportSingle
    THEN /\ val.t = "dict"
         /\ DictHas(val.v, CtxKey) <=> ld.jsonld
         /\ DictGet(val.v, <<"parts">>).t = "list"
    ELSE IF ld.recursive /\ cell = ImportMany
    THEN val.t = "list" /\ Len(val.v) = 1 /\ val.v[1].t = "dict"
    ELSE SameValue(val, cell)

\* The key and value rows of the top sheet that single-object mode reads, each
\* the last row of its key, and the rows after the header name, size that
\* many-object mode reads.
SingleCells == {i \in DOMAIN ld.rows :
                   /\ Len(ld.rows[i]) = 2 /\ ~SingleSkips(ld.rows[i]) /\ Truthy(ld.rows[i][2])
                   /\ \A j \in DOMAIN ld.rows :
                         (j > i /\ Len(ld.rows[j]) > 0) => ld.rows[j][1] # ld.rows[i][1]}

ManyCells == {i \in DOMAIN ld.rows :
                 /\ i > 1
                 /\ ld.rows[1] = <<Str(<<"name">>), Str(<<"size">>)>>
                 /\ Len(ld.rows[i]) = 2 /\ ~ManySkips(ld.rows[i]) /\ Truthy(ld.rows[i][2])}

\* The record many-object mode makes of the i-th row.
RecordOf(i) == ld.result.v[Cardinality({j \in 1..i : ~ManySkips(ld.rows[j])}) - 1]

\* C11: with recursion on, a cell that starts with @tabby-single- is replaced
\* by the mapping a single-mode load of the named sibling sheet gives and a cell
\* that starts with @tabby-many- by the list a many-mode load gives, both loads
\* with the caller's jsonld and recursive flags; with recursion off every cell
\* stays the string it is; a cell that starts with @tabby- and carries neither
\* marker stays as it is with recursion on and off.
C11_ImportResolution ==
    ld.state = "done" =>
        /\ ld.single =>
              \A i \in SingleCells :
                 LET val == DictGet(ld.result.v, ld.rows[i][1].v)
                 IN  /\ SameValue(val, Replaced(ld.rows[i][2]))
                     /\ ReplacedKind(ld.rows[i][2], val)
        /\ ~ld.single =>
              \A i \in ManyCells :
                 LET val == DictGet(RecordOf(i).v, <<"size">>)
                 IN  /\ SameValue(val, Replaced(ld.rows[i][2]))
                     /\ ReplacedKind(ld.rows[i][2], val)

\* A single-mode load with recursion on of a sheet with a single import, a
\* many import and a cell of neither marker.
C11_Witness ==
    /\ ld.state = "done" /\ ld.single /\ ld.recursive /\ ld.jsonld
    /\ ld.rows = << <<Str(<<"k">>), ImportSingle>>,
                    <<Str(<<"f1">>), ImportMany>>,
                    <<Str(<<"u">>), ImportOther>> >>
    /\ DictGet(ld.result.v, <<"k">>).t = "dict"
    /\ DictGet(ld.result.v, <<"f1">>).t = "list"
    /\ SameValue(DictGet(ld.result.v, <<"u">>), ImportOther)

\* ------------------------------------------- claims: the loader's recursion

\* The import graph: a node is a sheet with the mode it is loaded in, and its
\* edges are the loads its cells ask for with recursion on.
Node(src, single) == [single |-> single, src |-> src]

Edges(n) ==
    LET cells == ResolvedFrom(SheetRows(n.src), 1, n.single, FALSE)
    IN  {Import(cells[i], n.src, TRUE)[1] :
            i \in {j \in DOMAIN cells : IsSet(Import(cells[j], n.src, TRUE))}}

RECURSIVE Closure(_)
Closure(nodes) ==
    LET more == nodes \cup UNION {Edges(n) : n \in nodes}
    IN  IF more = nodes THEN nodes ELSE Closure(more)

\* Whether a chain of imports that starts at the node comes back to a node of
\* the chain.
CyclicFrom(start) == \E n \in Closure({start}) : n \in Closure(Edges(n))

Returned == ld.state = "done" /\ ld.returns \in {"dict", "list"}

\* C12: a load with recursion on whose import graph from the start sheet has no
\* cycle returns a result; a load with recursion on whose imports form a cycle
\* never returns one: no import is refused, the calls nest until none is left
\* to the interpreter; a load with recursion off returns a result and has read
\* the start sheet alone.
C12_Termination ==
    /\ []((~ld.recursive \/ ~CyclicFrom(Node(ld.src, ld.single))) => <>Returned)
    /\ []((ld.recursive /\ CyclicFrom(Node(ld.src, ld.single))) =>
             (ld.state # "done" /\ <>(ld.state = "raised")))
    /\ [](~ld.recursive => Len(ld.stack) <= 1)

\* The load of sheet a, which imports b, which imports a, has nested as far as
\* the interpreter lets it, and the trace of the innermost load names a sheet
\* twice.
C12_Witness ==
    /\ ld.state = "raised" /\ ld.recursive
    /\ ld.src = [dir |-> "cyc", sheet |-> <<"a">>]
    /\ Len(ld.stack) = MaxDepth
    /\ \E i, j \in DOMAIN Top.trace : i < j /\ Top.trace[i] = Top.trace[j]

\* --------------------------------------- claims: the loader's trailing cells

\* The rows of the top sheet that many-object mode makes records of: the rows
\* it does not skip, but for the first of them, the header.
DataRows ==
    {i \in DOMAIN ld.rows :
        /\ ~ManySkips(ld.rows[i])
        /\ \E h \in 1..(i - 1) : ~ManySkips(ld.rows[h])}

\* The longer row is the shorter one with empty cells after it.
Extends(longer, shorter) ==
    /\ Len(longer) > Len(shorter)
    /\ SubSeq(longer, 1, Len(shorter)) = shorter
    /\ \A k \in (Len(shorter) + 1)..Len(longer) : longer[k] = Empty

\* C13: in many-object mode a data row and the same row with empty cells after
\* it, within the field names or past them, load to equal records.
C13_TrailingEmptyCells ==
    (ld.state = "done" /\ ~ld.single) =>
        \A i, j \in DataRows :
           Extends(ld.rows[j], ld.rows[i]) => SameValue(RecordOf(i), RecordOf(j))

====
